---- MODULE Spec2Model ----
(***************************************************************************)
(* State-machine model of bplustree-rs: the in-memory block engine         *)
(* (src/src/block.rs) and the B+Tree built on it (src/src/tree.rs).        *)
(*                                                                         *)
(* Rust's Option<T> is a sequence of length at most one: None is <<>> and  *)
(* Some(x) is <<x>>.  Vec indices are 0-based in the source and 1-based    *)
(* here; positions and cut points (pos, idx, KeysCut, ...) keep the        *)
(* source's 0-based value.                                                 *)
(***************************************************************************)
EXTENDS Integers, Sequences, FiniteSets, TLC

\* ------------------------------------------------------------------ bounds
MaxKey == 4
MaxOrder == 2
MaxBlocks == 2
MaxItem == 2

Keys == 1..MaxKey
Orders == 1..MaxOrder
Items == 1..MaxItem
Ids == 0..MaxBlocks

\* V is opaque to the tree (it is only moved and cloned): every key is
\* inserted with a value of its own, so that a value returned for the wrong
\* key shows.
ValueOf(k) == 10 * k

\* ------------------------------------------------------- Option and Vec
None == <<>>
Some(x) == <<x>>

InsertAt(s, pos, x) == SubSeq(s, 1, pos) \o <<x>> \o SubSeq(s, pos + 1, Len(s))
RemoveAt(s, pos) == SubSeq(s, 1, pos) \o SubSeq(s, pos + 2, Len(s))
Contains(s, x) == \E i \in DOMAIN s : s[i] = x

\* slice::binary_search on a sorted slice: Ok(index of the match) or
\* Err(insertion point); pos is the index in both cases.
BinarySearch(keys, key) ==
    [found |-> \E i \in DOMAIN keys : keys[i] = key,
     pos   |-> Cardinality({i \in DOMAIN keys : keys[i] < key})]

\* Vec::push grows a full buffer to max(2 * cap, len + 1, MinNonZeroCap).
MinNonZeroCap == 4
Max(a, b) == IF a >= b THEN a ELSE b
GrownCap(cap, len) == Max(Max(2 * cap, len + 1), MinNonZeroCap)

\* ------------------------------------------------------------------ state
VARIABLES
    blocks,         \* MemoryBlockEngine.blocks: Seq of [valid, id, content, lock]
    next_block_id,  \* MemoryBlockEngine.next_block_id
    free_list,      \* MemoryBlockEngine.free_list
    cap,            \* capacity of the blocks Vec's buffer
    way,            \* BPlusTree.way
    root,           \* BPlusTree.root
    aborted,        \* the process panicked
    inserted,       \* history: key -> value of every successful insert
    nsplits,        \* history: number of node splits performed so far
    freed,          \* history: ids freed and not yet handed out again, oldest first
    written,        \* history: id -> the content last stored in the block
    last,           \* history: the last call, its arguments and its result
    got,            \* history: ids of the write guards the last call obtained
    wb,             \* history: the write_back invocations of the last call
    synced          \* history: id -> the block last passed to write_back

vars == <<blocks, next_block_id, free_list, cap, way, root, aborted,
          inserted, nsplits, freed, written, last, got, wb, synced>>

\* --------------------------------------------------------------- blocks
\* Block { valid, id, content } inside its RwLock; lock is the RwLock's
\* state: 0 unlocked, n > 0 held by n readers, -1 held by a writer.
Block(valid, id, content) ==
    [valid |-> valid, id |-> id, content |-> content, lock |-> 0]

new_leaf(w, parent) ==
    [parent |-> parent, way |-> w, is_leaf |-> TRUE, keys |-> <<>>,
     values |-> <<>>, prev |-> None, next |-> None, pointers |-> <<>>]

new_inner(w) ==
    [parent |-> None, way |-> w, is_leaf |-> FALSE, keys |-> <<>>,
     values |-> <<>>, prev |-> None, next |-> None, pointers |-> <<>>]

(***************************************************************************)
(* A call runs on a record st: the engine's fields plus the call's own     *)
(* context.                                                                *)
(*   held   ids whose write guard the call holds                           *)
(*   stale  id -> block, for the held guards whose RwLock was moved by a   *)
(*          reallocation of the blocks Vec while the guard was alive       *)
(*   top    the Cell<Option<BlockId>> of BPlusTree::insert / delete        *)
(*   got    ids of the write guards fetch_write returned, in order         *)
(*   wb     the write_back invocations made, in order: [id, block]         *)
(*   ret    the value the last engine or tree call returned                *)
(*   status "ok"; "err" (Result::Err); "panic"; "blocked" (waiting on a    *)
(*          lock that is never released)                                   *)
(*                                                                         *)
(* insert_helper and delete_helper reach the engine through a raw pointer  *)
(* and keep guards alive across alloc_block.  When alloc_block's push      *)
(* finds the buffer full the Vec reallocates; a guard taken before keeps   *)
(* pointing at the old buffer.  The allocator either grows the buffer in   *)
(* place (mv = FALSE: the guards stay good) or moves it (mv = TRUE): then  *)
(* reads through such a guard see the old buffer, writes through it and    *)
(* its unlock land in the old buffer, and the block in the new buffer      *)
(* keeps the state and the locked RwLock that were copied.                 *)
(***************************************************************************)
Engine(bs, nid, fl, c) ==
    [blocks |-> bs, next_block_id |-> nid, free_list |-> fl, cap |-> c,
     held |-> {}, stale |-> <<>>, top |-> None, ret |-> None,
     nsplits |-> 0, got |-> <<>>, wb |-> <<>>, status |-> "ok"]

Fail(st, why) == [st EXCEPT !.status = why]

\* The block a guard on id refers to.
Blk(st, id) == IF id \in DOMAIN st.stale THEN st.stale[id] ELSE st.blocks[id + 1]

\* A write through a guard on id.
SetBlk(st, id, b) ==
    IF id \in DOMAIN st.stale
    THEN [st EXCEPT !.stale[id] = b]
    ELSE [st EXCEPT !.blocks[id + 1] = b]

NodeOf(st, id) == Blk(st, id).content[1]
SetNode(st, id, node) == SetBlk(st, id, [Blk(st, id) EXCEPT !.content = Some(node)])

\* The Block<B> behind a guard, as write_back receives it.
BlockState(b) == [valid |-> b.valid, id |-> b.id, content |-> b.content]

\* (self.write_back)(id, self.deref()) with id read through the guard; the
\* memory engine's write_back does nothing with its arguments.
write_back(st, id) ==
    [st EXCEPT !.wb = Append(@, [id |-> Blk(st, id).id,
                                 block |-> BlockState(Blk(st, id))])]

\* The RwLock is unlocked through the guard's reference.
unlock_write(st, id) ==
    IF id \in DOMAIN st.stale
    THEN [st EXCEPT !.held = @ \ {id},
                    !.stale = [i \in (DOMAIN @) \ {id} |-> @[i]]]
    ELSE [st EXCEPT !.held = @ \ {id}, !.blocks[id + 1].lock = 0]

\* A guard whose drop only unlocks, without the call of write_back.
drop_write_silent(st, id) ==
    IF st.status \notin {"ok", "err"} THEN st
    ELSE unlock_write(st, id)

\* Drop for BlockWriteGuard, then the drop of its RwLockWriteGuard field.
drop_write(st, id) ==
    IF st.status \notin {"ok", "err"} THEN st
    ELSE unlock_write(write_back(st, id), id)

\* Vec::push of a new block; a full buffer is reallocated first.
PushBlock(st, b, mv) ==
    LET full == Len(st.blocks) = st.cap
        moved == full /\ mv
        gone == IF moved THEN st.held \ DOMAIN st.stale ELSE {}
    IN  [st EXCEPT
            !.cap = IF full THEN GrownCap(st.cap, Len(st.blocks)) ELSE @,
            !.stale = [i \in (DOMAIN @) \cup gone |->
                          IF i \in DOMAIN @ THEN @[i] ELSE st.blocks[i + 1]],
            !.blocks = Append(@, b)]

\* self.blocks[block_id].write().unwrap().valid = true
MakeValid(st, id) ==
    IF st.blocks[id + 1].lock # 0 THEN Fail(st, "blocked")
    ELSE [st EXCEPT !.blocks[id + 1].valid = TRUE, !.ret = id]

\* alloc_block taking the oldest entry of the free list (remove(0) for pop()).
alloc_block_fifo(st, mv) ==
    IF st.status # "ok" THEN st
    ELSE IF st.free_list # <<>>
    THEN MakeValid([st EXCEPT !.free_list = Tail(@)], st.free_list[1])
    ELSE MakeValid(PushBlock([st EXCEPT !.next_block_id = @ + 1],
                             Block(FALSE, st.next_block_id, None), mv),
                   st.next_block_id)

\* alloc_block reading the free list's last entry (last() for pop()).
alloc_block_last(st, mv) ==
    IF st.status # "ok" THEN st
    ELSE IF st.free_list # <<>>
    THEN MakeValid(st, st.free_list[Len(st.free_list)])
    ELSE MakeValid(PushBlock([st EXCEPT !.next_block_id = @ + 1],
                             Block(FALSE, st.next_block_id, None), mv),
                   st.next_block_id)

\* MemoryBlockEngine::alloc_block
alloc_block(st, mv) ==
    IF st.status # "ok" THEN st
    ELSE IF st.free_list # <<>>
    THEN LET id == st.free_list[Len(st.free_list)]
         IN  MakeValid([st EXCEPT !.free_list = SubSeq(@, 1, Len(@) - 1)], id)
    ELSE LET id == st.next_block_id
         IN  MakeValid(PushBlock([st EXCEPT !.next_block_id = @ + 1],
                                 Block(FALSE, id, None), mv), id)

\* fetch_write that also refuses an id waiting in the free list.
fetch_write_unfreed(st, id) ==
    IF st.status # "ok" THEN st
    ELSE IF id >= st.next_block_id \/ Contains(st.free_list, id) THEN Fail(st, "err")
    ELSE IF st.blocks[id + 1].lock # 0 THEN Fail(st, "blocked")
    ELSE [st EXCEPT !.blocks[id + 1].lock = -1, !.held = @ \cup {id},
                    !.got = Append(@, id)]

\* MemoryBlockEngine::fetch_write
fetch_write(st, id) ==
    IF st.status # "ok" THEN st
    ELSE IF id >= st.next_block_id THEN Fail(st, "err")
    ELSE IF st.blocks[id + 1].lock # 0 THEN Fail(st, "blocked")
    ELSE [st EXCEPT !.blocks[id + 1].lock = -1, !.held = @ \cup {id},
                    !.got = Append(@, id)]

\* fetch_read followed by the drop of the read guard it returned
read_lock(st, id) ==
    IF st.status # "ok" THEN st
    ELSE IF id >= st.next_block_id THEN Fail(st, "err")
    ELSE IF st.blocks[id + 1].lock < 0 THEN Fail(st, "blocked")
    ELSE [st EXCEPT !.blocks[id + 1].lock = @ + 1]

drop_read(st, id) ==
    IF st.status # "ok" THEN st
    ELSE [st EXCEPT !.blocks[id + 1].lock = @ - 1]

\* BlockEngine::alloc_write (the trait's default method): alloc_block, then
\* fetch_write(id)?, content = Some(item), valid = true, guard dropped.
write_item(w, id, item) ==
    IF w.status # "ok" THEN w
    ELSE [drop_write(SetBlk(w, id, [Blk(w, id) EXCEPT !.content = Some(item),
                                                      !.valid = TRUE]), id)
          EXCEPT !.ret = id]

alloc_written(a, item) ==
    IF a.status # "ok" THEN a ELSE write_item(fetch_write(a, a.ret), a.ret, item)

alloc_write(st, item, mv) == alloc_written(alloc_block(st, mv), item)

\* delete without the free_list.contains(&block_id) test.
engine_delete_nocheck(st, id) ==
    IF st.status # "ok" THEN st
    ELSE IF id >= st.next_block_id THEN Fail(st, "err")
    ELSE IF st.blocks[id + 1].lock # 0 THEN Fail(st, "blocked")
    ELSE [st EXCEPT !.free_list = Append(@, id),
                    !.ret = st.blocks[id + 1].content,
                    !.blocks[id + 1].content = None]

\* MemoryBlockEngine::delete
engine_delete(st, id) ==
    IF st.status # "ok" THEN st
    ELSE IF id >= st.next_block_id \/ Contains(st.free_list, id) THEN Fail(st, "err")
    ELSE IF st.blocks[id + 1].lock # 0 THEN Fail(st, "blocked")
    ELSE [st EXCEPT !.free_list = Append(@, id),
                    !.ret = st.blocks[id + 1].content,
                    !.blocks[id + 1].content = None]

\* ------------------------------------------------------------- the tree
\* A Cell<Option<BlockId>> handed down the recursion: None is the local
\* cell of BPlusTree::insert / delete (st.top), Some(p) is the parent field
\* of the node in block p, reached through the guard held on p.
GetParent(st, pcell) ==
    IF pcell = None THEN st.top ELSE NodeOf(st, pcell[1]).parent

SetParent(st, pcell, v) ==
    IF pcell = None THEN [st EXCEPT !.top = v]
    ELSE SetNode(st, pcell[1], [NodeOf(st, pcell[1]) EXCEPT !.parent = v])

\* The child index search_helper descends to.
SearchRoute(keys, key) ==
    LET pos == BinarySearch(keys, key).pos
    IN  IF pos < Len(keys) /\ key = keys[pos + 1] THEN pos + 1 ELSE pos

\* The insertion point taken as the end of keys (a push for an insert at pos).
InsertRouteEnd(keys, key) == Len(keys)

\* The binary_search insertion point of insert_helper: the position a leaf
\* inserts at and the child index an inner node descends to.
InsertRoute(keys, key) == BinarySearch(keys, key).pos

RECURSIVE search_helper(_, _, _)
\* search_node returning values.remove(index) for values[index].clone().
search_node_remove(r, block_id, key) ==
    LET node == r.blocks[block_id + 1].content[1]
        bs == BinarySearch(node.keys, key)
        idx == SearchRoute(node.keys, key)
    IN  IF r.status = "err" THEN Fail(r, "panic")
        ELSE IF r.status # "ok" THEN r
        ELSE IF r.blocks[block_id + 1].content = None
        THEN [drop_read(r, block_id) EXCEPT !.ret = None]
        ELSE IF ~node.is_leaf
        THEN IF idx >= Len(node.pointers) THEN Fail(r, "panic")
             ELSE drop_read(search_helper(r, node.pointers[idx + 1], key), block_id)
        ELSE IF bs.found /\ bs.pos >= Len(node.values) THEN Fail(r, "panic")
        ELSE IF bs.found
        THEN [drop_read(r, block_id) EXCEPT
                 !.ret = Some(node.values[bs.pos + 1]),
                 !.blocks[block_id + 1].content[1].values = RemoveAt(@, bs.pos)]
        ELSE [drop_read(r, block_id) EXCEPT !.ret = None]

\* search_helper once its read guard on block_id is taken.
search_node(r, block_id, key) ==
    LET node == r.blocks[block_id + 1].content[1]
        bs == BinarySearch(node.keys, key)
        idx == SearchRoute(node.keys, key)
    IN  IF r.status = "err" THEN Fail(r, "panic")
        ELSE IF r.status # "ok" THEN r
        ELSE IF r.blocks[block_id + 1].content = None
        THEN [drop_read(r, block_id) EXCEPT !.ret = None]
        ELSE IF ~node.is_leaf
        THEN IF idx >= Len(node.pointers) THEN Fail(r, "panic")
             ELSE drop_read(search_helper(r, node.pointers[idx + 1], key), block_id)
        ELSE IF bs.found /\ bs.pos >= Len(node.values) THEN Fail(r, "panic")
        ELSE [drop_read(r, block_id) EXCEPT
                 !.ret = IF bs.found THEN Some(node.values[bs.pos + 1]) ELSE None]

search_helper(st, block_id, key) == search_node(read_lock(st, block_id), block_id, key)

(***************************************************************************)
(* The split at the end of insert_helper, taken when keys.len() > way, in  *)
(* the order of the source: the node is cut, the parent cell is filled     *)
(* with a new inner node if it is empty, the parent block is fetched, the  *)
(* right sibling is allocated and written, the separator and the sibling's *)
(* id are inserted into the parent, and a leaf's next is set.              *)
(***************************************************************************)
\* The cut rounded up: (len + 1) / 2 for len / 2.
KeysCutCeil(node) == (Len(node.keys) + 1) \div 2

\* keys.split_off(len / 2); a leaf then cuts values at values.len() / 2, an
\* inner node cuts pointers at node.keys.len() / 2, read after keys was cut.
KeysCut(node) == Len(node.keys) \div 2
ValuesCut(node) == Len(node.values) \div 2
PointersCut(node) == KeysCut(node) \div 2

LeftHalf(node) ==
    IF node.is_leaf
    THEN [node EXCEPT !.keys = SubSeq(@, 1, KeysCut(node)),
                      !.values = SubSeq(@, 1, ValuesCut(node))]
    ELSE [node EXCEPT !.keys = SubSeq(@, 1, KeysCut(node)),
                      !.pointers = SubSeq(@, 1, PointersCut(node))]

\* right_keys before the inner split removes its first key
RightKeys(node) == SubSeq(node.keys, KeysCut(node) + 1, Len(node.keys))

\* the promoted key: right_keys[0].clone() of a leaf, right_keys.remove(0)
\* of an inner node
Mid(node) == RightKeys(node)[1]

\* The sibling as the source builds it, but for parent and next, which are
\* read when it is allocated.
RightHalf(node, block_id) ==
    [parent |-> None, way |-> node.way, is_leaf |-> node.is_leaf,
     keys |-> IF node.is_leaf THEN RightKeys(node) ELSE Tail(RightKeys(node)),
     values |-> IF node.is_leaf
                THEN SubSeq(node.values, ValuesCut(node) + 1, Len(node.values))
                ELSE <<>>,
     prev |-> Some(block_id), next |-> None,
     pointers |-> IF node.is_leaf THEN <<>>
                  ELSE SubSeq(node.pointers, PointersCut(node) + 1,
                              Len(node.pointers))]

\* The inner node made when the parent cell is empty.
NewParent(node, block_id) ==
    IF node.is_leaf THEN [new_inner(node.way) EXCEPT !.pointers = <<block_id>>]
    ELSE new_inner(node.way)

\* parent.set(alloc_write(..).ok()); assert_ne!(parent.get(), None)
parent_set(a, pcell) ==
    IF a.status = "err" THEN Fail(a, "panic")
    ELSE IF a.status # "ok" THEN a
    ELSE SetParent(a, pcell, Some(a.ret))

ensure_parent(s, pcell, fresh, mv) ==
    IF GetParent(s, pcell) # None THEN s
    ELSE parent_set(alloc_write(s, fresh, mv), pcell)

\* split_link without pointers.insert(pos + 1, right_block_id).
split_link_nopointer(s, pid, block_id, pos, mid) ==
    LET right_block_id == s.ret
        pn == NodeOf(s, pid)
        p == SetNode(s, pid, [pn EXCEPT !.keys = InsertAt(@, pos, mid)])
        node == NodeOf(p, block_id)
    IN  IF s.status = "err" THEN drop_write(s, pid)
        ELSE IF s.status # "ok" THEN s
        ELSE [drop_write(IF node.is_leaf
                         THEN SetNode(p, block_id,
                                      [node EXCEPT !.next = Some(right_block_id)])
                         ELSE p,
                         pid)
              EXCEPT !.nsplits = @ + 1]

\* keys.insert(pos, mid); pointers.insert(pos + 1, right_block_id);
\* node.next = Some(right_block_id) in a leaf; parent_block dropped.
split_link(s, pid, block_id, pos, mid) ==
    LET right_block_id == s.ret
        pn == NodeOf(s, pid)
        p == SetNode(s, pid, [pn EXCEPT
                 !.keys = InsertAt(@, pos, mid),
                 !.pointers = InsertAt(@, pos + 1, right_block_id)])
        node == NodeOf(p, block_id)
    IN  IF s.status = "err" THEN drop_write(s, pid)
        ELSE IF s.status # "ok" THEN s
        ELSE IF pos + 1 > Len(pn.pointers) THEN Fail(s, "panic")
        ELSE [drop_write(IF node.is_leaf
                         THEN SetNode(p, block_id,
                                      [node EXCEPT !.next = Some(right_block_id)])
                         ELSE p,
                         pid)
              EXCEPT !.nsplits = @ + 1]

\* With the parent block fetched: binary_search of mid, alloc_write of the
\* sibling.
split_sibling(s, pid, pcell, block_id, mid, sibling, mv) ==
    IF s.status # "ok" THEN s
    ELSE IF Blk(s, pid).content = None THEN Fail(s, "panic")
    ELSE split_link(alloc_write(s, [sibling EXCEPT
                                       !.parent = GetParent(s, pcell),
                                       !.next = NodeOf(s, block_id).next], mv),
                    pid, block_id, BinarySearch(NodeOf(s, pid).keys, mid).pos, mid)

split_parent(s, pcell, block_id, mid, sibling, mv) ==
    IF s.status # "ok" THEN s
    ELSE split_sibling(fetch_write(s, GetParent(s, pcell)[1]),
                       GetParent(s, pcell)[1], pcell, block_id, mid, sibling, mv)

split(st, pcell, block_id, mv) ==
    LET node == NodeOf(st, block_id)
    IN  IF ~node.is_leaf /\ PointersCut(node) > Len(node.pointers)
        THEN Fail(st, "panic")
        ELSE split_parent(ensure_parent(SetNode(st, block_id, LeftHalf(node)),
                                        pcell, NewParent(node, block_id), mv),
                          pcell, block_id, Mid(node), RightHalf(node, block_id), mv)

RECURSIVE insert_helper(_, _, _, _, _, _)
\* The leaf takes the pair; an inner node hands it to a child.
insert_place(g, block_id, key, value, mv) ==
    LET node == NodeOf(g, block_id)
        pos == InsertRoute(node.keys, key)
    IN  IF node.is_leaf
        THEN SetNode(g, block_id, [node EXCEPT !.keys = InsertAt(@, pos, key),
                                              !.values = InsertAt(@, pos, value)])
        ELSE IF pos >= Len(node.pointers) THEN Fail(g, "panic")
        ELSE insert_helper(g, Some(block_id), node.pointers[pos + 1], key, value, mv)

\* if node.keys.len() > node.way { split }; the guard is dropped on return.
insert_split(s, pcell, block_id, mv) ==
    IF s.status # "ok" THEN drop_write(s, block_id)
    ELSE IF Len(NodeOf(s, block_id).keys) > NodeOf(s, block_id).way
    THEN drop_write(split(s, pcell, block_id, mv), block_id)
    ELSE drop_write(s, block_id)

insert_node(g, pcell, block_id, key, value, mv) ==
    IF g.status = "err" THEN Fail(g, "panic")
    ELSE IF g.status # "ok" THEN g
    ELSE IF Blk(g, block_id).content = None THEN drop_write(g, block_id)
    ELSE insert_split(insert_place(g, block_id, key, value, mv), pcell, block_id, mv)

insert_helper(st, pcell, block_id, key, value, mv) ==
    insert_node(fetch_write(st, block_id), pcell, block_id, key, value, mv)

RECURSIVE delete_helper(_, _, _, _)
delete_node(g, pcell, block_id, key) ==
    LET node == NodeOf(g, block_id)
        bs == BinarySearch(node.keys, key)
        pos == bs.pos
    IN  IF g.status = "err" THEN Fail(g, "panic")
        ELSE IF g.status # "ok" THEN g
        ELSE IF Blk(g, block_id).content = None
        THEN [drop_write(g, block_id) EXCEPT !.ret = None]
        ELSE IF ~bs.found THEN [drop_write(g, block_id) EXCEPT !.ret = None]
        ELSE IF node.is_leaf
        THEN IF pos >= Len(node.values) THEN Fail(g, "panic")
             ELSE [drop_write(SetNode(g, block_id,
                                      [node EXCEPT !.keys = RemoveAt(@, pos),
                                                   !.values = RemoveAt(@, pos)]),
                              block_id)
                   EXCEPT !.ret = Some(node.values[pos + 1])]
        ELSE IF pos >= Len(node.pointers) THEN Fail(g, "panic")
        ELSE drop_write(delete_helper(g, Some(block_id), node.pointers[pos + 1], key),
                        block_id)

delete_helper(st, pcell, block_id, key) ==
    delete_node(fetch_write(st, block_id), pcell, block_id, key)

\* The engine as a call finds it.
Now == Engine(blocks, next_block_id, free_list, cap)

\* BPlusTree::search, insert, delete on the current tree.
search(key) == search_helper(Now, root, key)
insert(key, value, mv) == insert_helper(Now, None, root, key, value, mv)
delete(key) == delete_helper(Now, None, root, key)

\* BPlusTree::new(w, MemoryBlockEngine::new())
NewTree(w) == alloc_write(Engine(<<>>, 0, <<>>, 0), new_leaf(w, None), FALSE)

\* --------------------------------------------------------------- actions
Call(op, arg, r) ==
    [op |-> op, arg |-> arg, ret |-> IF r.status = "ok" THEN r.ret ELSE None,
     ok |-> r.status = "ok"]

\* The last entry of a write_back log for id, if there is one.
LastWb(log, id, dflt) ==
    LET at == {i \in DOMAIN log : log[i].id = id}
    IN  IF at = {} THEN dflt
        ELSE Some(log[CHOOSE i \in at : \A j \in at : j <= i].block)

Synced(old, log, n) ==
    [i \in 1..n |-> LastWb(log, i - 1, IF i <= Len(old) THEN old[i] ELSE None)]

Commit(r) ==
    /\ r.status # "blocked"
    /\ blocks' = r.blocks
    /\ next_block_id' = r.next_block_id
    /\ free_list' = r.free_list
    /\ cap' = r.cap
    /\ aborted' = (r.status = "panic")
    /\ got' = r.got
    /\ wb' = r.wb
    /\ synced' = Synced(synced, r.wb, Len(r.blocks))

Init ==
    \E w \in Orders :
        LET t == NewTree(w)
        IN  /\ blocks = t.blocks
            /\ next_block_id = t.next_block_id
            /\ free_list = t.free_list
            /\ cap = t.cap
            /\ way = w
            /\ root = t.ret
            /\ aborted = FALSE
            /\ inserted = <<>>
            /\ nsplits = 0
            /\ freed = <<>>
            /\ written = <<>>
            /\ last = [op |-> "new", arg |-> <<w>>, ret |-> Some(t.ret), ok |-> TRUE]
            /\ got = t.got
            /\ wb = t.wb
            /\ synced = Synced(<<>>, t.wb, Len(t.blocks))

Insert(k, v) ==
    /\ ~aborted
    /\ k \notin DOMAIN inserted
    /\ \E mv \in BOOLEAN :
        LET r == insert(k, v, mv)
        IN  /\ Commit(r)
            /\ root' = IF r.status = "ok" /\ r.top # None THEN r.top[1] ELSE root
            /\ inserted' = IF r.status = "ok"
                           THEN [x \in DOMAIN inserted \cup {k} |->
                                    IF x = k THEN v ELSE inserted[x]]
                           ELSE inserted
            /\ nsplits' = nsplits + r.nsplits
            /\ last' = [Call("insert", <<k, v>>, r) EXCEPT !.ret = None]
    /\ UNCHANGED <<way, freed, written>>

Delete(k) ==
    /\ ~aborted
    /\ LET r == delete(k)
       IN  /\ Commit(r)
           /\ root' = IF r.status = "ok" /\ r.top # None THEN r.top[1] ELSE root
           /\ last' = Call("delete", <<k>>, r)
    /\ UNCHANGED <<way, inserted, nsplits, freed, written>>

Search(k) ==
    /\ ~aborted
    /\ LET r == search(k)
       IN  /\ Commit(r)
           /\ last' = Call("search", <<k>>, r)
    /\ UNCHANGED <<way, root, inserted, nsplits, freed, written>>

Next ==
    \/ \E k \in Keys : Insert(k, ValueOf(k))
    \/ \E k \in Keys : Delete(k)
    \/ \E k \in Keys : Search(k)

Spec == Init /\ [][Next]_vars

NextInsert ==
    \/ \E k \in Keys : Insert(k, ValueOf(k))
    \/ \E k \in Keys : Search(k)

SpecInsert == Init /\ [][NextInsert]_vars

\* ------------------------------------------- a tree over a failing engine
\* BPlusTree is generic in E: BlockEngine, whose fetch_read and fetch_write
\* return a Result.  Refused is the call state right after a fetch that the
\* engine answered with Err; the tree operation goes on from there.
Refused(st) == Fail(st, "err")

InsertRefused(k, v) ==
    /\ ~aborted
    /\ LET r == insert_node(Refused(Now), None, root, k, v, FALSE)
       IN  /\ Commit(r)
           /\ last' = [Call("insert_refused", <<k, v>>, r) EXCEPT !.ret = None]
    /\ UNCHANGED <<way, root, inserted, nsplits, freed, written>>

DeleteRefused(k) ==
    /\ ~aborted
    /\ LET r == delete_node(Refused(Now), None, root, k)
       IN  /\ Commit(r)
           /\ last' = Call("delete_refused", <<k>>, r)
    /\ UNCHANGED <<way, root, inserted, nsplits, freed, written>>

SearchRefused(k) ==
    /\ ~aborted
    /\ LET r == search_node(Refused(Now), root, k)
       IN  /\ Commit(r)
           /\ last' = Call("search_refused", <<k>>, r)
    /\ UNCHANGED <<way, root, inserted, nsplits, freed, written>>

NextFault ==
    \/ Next
    \/ \E k \in Keys : InsertRefused(k, ValueOf(k))
    \/ \E k \in Keys : DeleteRefused(k)
    \/ \E k \in Keys : SearchRefused(k)

SpecFault == Init /\ [][NextFault]_vars

\* ------------------------------------------------- the engine on its own
\* MemoryBlockEngine::new(), used directly: no tree is built over it, and
\* way and root stay unused.  A caller of the engine's safe interface holds
\* no guard across a call that takes &mut self.
InitEngine ==
    /\ blocks = <<>>
    /\ next_block_id = 0
    /\ free_list = <<>>
    /\ cap = 0
    /\ way = 0
    /\ root = 0
    /\ aborted = FALSE
    /\ inserted = <<>>
    /\ nsplits = 0
    /\ freed = <<>>
    /\ written = <<>>
    /\ last = [op |-> "new", arg |-> <<>>, ret |-> None, ok |-> TRUE]
    /\ got = <<>>
    /\ wb = <<>>
    /\ synced = <<>>

Without(s, x) == SelectSeq(s, LAMBDA y : y # x)

\* The history after a block was handed out: content is what was stored last
\* (nothing yet for a fresh block), and id is no longer waiting for reuse.
HandedOut(id, content) ==
    /\ freed' = Without(freed, id)
    /\ written' = IF id < Len(written)
                  THEN [written EXCEPT ![id + 1] = IF content = None THEN @ ELSE content]
                  ELSE Append(written, content)

AllocBlock ==
    /\ ~aborted
    /\ next_block_id < MaxBlocks \/ free_list # <<>>
    /\ \E mv \in BOOLEAN :
        LET r == alloc_block(Now, mv)
        IN  /\ Commit(r)
            /\ HandedOut(r.ret, None)
            /\ last' = [Call("alloc_block", <<>>, r) EXCEPT !.ret = Some(r.ret)]
    /\ UNCHANGED <<way, root, inserted, nsplits>>

AllocWrite(item) ==
    /\ ~aborted
    /\ next_block_id < MaxBlocks \/ free_list # <<>>
    /\ \E mv \in BOOLEAN :
        LET r == alloc_write(Now, item, mv)
        IN  /\ Commit(r)
            /\ HandedOut(r.ret, Some(item))
            /\ last' = [Call("alloc_write", <<item>>, r) EXCEPT !.ret = Some(r.ret)]
    /\ UNCHANGED <<way, root, inserted, nsplits>>

\* fetch_write(id), then *guard = content, then the guard is dropped.
FetchWrite(id, content) ==
    /\ ~aborted
    /\ LET g == fetch_write(Now, id)
           r == drop_write(SetBlk(g, id, [Blk(g, id) EXCEPT !.content = content]), id)
       IN  /\ Commit(IF g.status = "ok" THEN r ELSE g)
           /\ written' = IF g.status = "ok" THEN [written EXCEPT ![id + 1] = content]
                         ELSE written
           /\ last' = Call("fetch_write", <<id>>, g)
    /\ UNCHANGED <<way, root, inserted, nsplits, freed>>

\* fetch_read(id), a look at the content, then the guard is dropped.
FetchRead(id) ==
    /\ ~aborted
    /\ LET g == read_lock(Now, id)
           r == drop_read(g, id)
       IN  /\ Commit(r)
           /\ last' = [Call("fetch_read", <<id>>, g) EXCEPT
                          !.ret = IF g.status = "ok" THEN g.blocks[id + 1].content
                                  ELSE None]
    /\ UNCHANGED <<way, root, inserted, nsplits, freed, written>>

EngineDelete(id) ==
    /\ ~aborted
    /\ LET r == engine_delete(Now, id)
       IN  /\ Commit(r)
           /\ freed' = IF r.status = "ok" THEN Append(freed, id) ELSE freed
           /\ written' = IF r.status = "ok" THEN [written EXCEPT ![id + 1] = None]
                         ELSE written
           /\ last' = Call("delete", <<id>>, r)
    /\ UNCHANGED <<way, root, inserted, nsplits>>

NextEngine ==
    \/ AllocBlock
    \/ \E item \in Items : AllocWrite(item)
    \/ \E id \in Ids, item \in Items : FetchWrite(id, Some(item))
    \/ \E id \in Ids : FetchWrite(id, None)
    \/ \E id \in Ids : FetchRead(id)
    \/ \E id \in Ids : EngineDelete(id)

SpecEngine == InitEngine /\ [][NextEngine]_vars

\* =============================================================== claims
\* ------------------------------------------------ reading a tree state
HasNode(id) == id < Len(blocks) /\ blocks[id + 1].content # None
NodeAt(id) == blocks[id + 1].content[1]
NodeIds == {id \in 0..(Len(blocks) - 1) : HasNode(id)}
LeafIds == {id \in NodeIds : NodeAt(id).is_leaf}
InnerIds == {id \in NodeIds : ~NodeAt(id).is_leaf}
Range(s) == {s[i] : i \in DOMAIN s}
StrictlyAscending(s) == \A i \in 1..(Len(s) - 1) : s[i] < s[i + 1]

RECURSIVE Asc(_)
Asc(S) ==
    IF S = {} THEN <<>>
    ELSE LET m == CHOOSE x \in S : \A y \in S : x <= y
         IN  <<m>> \o Asc(S \ {m})

\* <<leaf, depth>> for every leaf reached from id through child pointers
RECURSIVE LeavesUnder(_, _, _)
LeavesUnder(id, depth, fuel) ==
    IF fuel = 0 \/ ~HasNode(id) THEN {}
    ELSE IF NodeAt(id).is_leaf THEN {<<id, depth>>}
    ELSE UNION {LeavesUnder(c, depth + 1, fuel - 1) : c \in Range(NodeAt(id).pointers)}

ReachedLeaves == LeavesUnder(root, 0, Len(blocks))

RECURSIVE Leftmost(_, _)
Leftmost(id, fuel) ==
    IF fuel = 0 \/ ~HasNode(id) \/ NodeAt(id).is_leaf \/ NodeAt(id).pointers = <<>>
    THEN id
    ELSE Leftmost(NodeAt(id).pointers[1], fuel - 1)

\* the leaves met from id along next, at most fuel of them
RECURSIVE Chain(_, _)
Chain(id, fuel) ==
    IF fuel = 0 \/ ~HasNode(id) THEN <<>>
    ELSE <<id>> \o (IF NodeAt(id).next = None THEN <<>>
                    ELSE Chain(NodeAt(id).next[1], fuel - 1))

LeafChain == Chain(Leftmost(root, Len(blocks)), Len(blocks) + 1)

RECURSIVE ChainKeys(_)
ChainKeys(c) == IF c = <<>> THEN <<>> ELSE NodeAt(c[1]).keys \o ChainKeys(Tail(c))

\* what search(k) answers: <<TRUE, ret>> when it returns, <<FALSE, None>>
\* when it does not
Answer(r) == IF r.status = "ok" THEN <<TRUE, r.ret>> ELSE <<FALSE, None>>
Expected(k) == IF k \in DOMAIN inserted THEN Some(inserted[k]) ELSE None

\* search(k) on the state a step leads to
SearchAfter(k) ==
    search_helper(Engine(blocks', next_block_id', free_list', cap'), root', k)

\* C1: with inserts of distinct keys only, search(k) returns the value
\* inserted with k for every inserted key, right after the insert and after
\* every later insert, and returns empty for every key never inserted.
C1_SearchReturnsInserted ==
    \A k \in Keys : Answer(search(k)) = <<TRUE, Expected(k)>>

\* C2: after exactly way + 1 inserts into a fresh tree there has been
\* exactly one split, the root is a new inner node with one separator and two
\* leaf children, the left leaf holds the lowest (way + 1) / 2 keys with
\* their values, the right leaf the others, and the separator is the right
\* leaf's first key; for way = 2 and keys 1, 2, 3: root [2], leaves [1] and
\* [2, 3].
C2_Shape ==
    LET ks == Asc(DOMAIN inserted)
        h == (way + 1) \div 2
        r == NodeAt(root)
        left == NodeAt(r.pointers[1])
        right == NodeAt(r.pointers[2])
    IN  /\ nsplits = 1
        /\ root # 0
        /\ HasNode(root)
        /\ ~r.is_leaf
        /\ Len(r.keys) = 1
        /\ Len(r.pointers) = 2
        /\ HasNode(r.pointers[1]) /\ left.is_leaf
        /\ HasNode(r.pointers[2]) /\ right.is_leaf
        /\ left.keys = SubSeq(ks, 1, h)
        /\ left.values = [i \in 1..h |-> inserted[ks[i]]]
        /\ right.keys = SubSeq(ks, h + 1, Len(ks))
        /\ right.values = [i \in 1..(Len(ks) - h) |-> inserted[ks[h + i]]]
        /\ r.keys[1] = right.keys[1]
        /\ (way = 2 /\ DOMAIN inserted = {1, 2, 3}) =>
               (r.keys = <<2>> /\ left.keys = <<1>> /\ right.keys = <<2, 3>>)

C2_OneSplitAtOrderPlusOne ==
    Cardinality(DOMAIN inserted) = way + 1 => C2_Shape

C2_Witness ==
    /\ Cardinality(DOMAIN inserted) = way + 1
    /\ last.op = "insert"
    /\ nsplits = 1
    /\ way = 2
    /\ NodeAt(root).keys # <<2>>

\* C3: delete(k) of a key that search finds returns the value stored for k
\* and a following search(k) returns empty; delete(k) of a key that search
\* does not find returns empty.
C3_DeleteRemoves ==
    [][last'.op = "delete" =>
          LET k == last'.arg[1]
          IN  /\ last'.ok
              /\ last'.ret = search(k).ret
              /\ search(k).ret # None => Answer(SearchAfter(k)) = <<TRUE, None>>]_vars

\* C4: search(k) changes nothing: root, the allocated count, the free list
\* and the valid flag and content of every block are the same after the call
\* as before it.
C4_SearchChangesNothing ==
    [][last'.op = "search" =>
          /\ root' = root
          /\ next_block_id' = next_block_id
          /\ free_list' = free_list
          /\ Len(blocks') = Len(blocks)
          /\ \A i \in DOMAIN blocks :
                /\ blocks'[i].valid = blocks[i].valid
                /\ blocks'[i].content = blocks[i].content]_vars

C4_Witness ==
    /\ last.op = "search"
    /\ last.ret # None
    /\ ~NodeAt(root).is_leaf

\* C5: with inserts of distinct keys only, following next from the leftmost
\* leaf visits every leaf exactly once, and the keys of the visited leaves,
\* taken in that order, are strictly ascending.
C5_LeafChainAscending ==
    /\ Range(LeafChain) = LeafIds
    /\ Len(LeafChain) = Cardinality(LeafIds)
    /\ StrictlyAscending(ChainKeys(LeafChain))

\* C6: with inserts of distinct keys and deletes, the keys of every node,
\* leaf or inner, are strictly ascending.
C6_KeysAscending ==
    \A id \in NodeIds : StrictlyAscending(NodeAt(id).keys)

C6_Witness ==
    /\ nsplits >= 3
    /\ \E id \in InnerIds : Len(NodeAt(id).keys) >= 2
    /\ last.op = "insert"
    /\ last.arg[1] < NodeAt(root).keys[1]

C8_LeavesReachableSameDepth ==
    /\ {x[1] : x \in ReachedLeaves} = LeafIds
    /\ \A x, y \in ReachedLeaves : x[2] = y[2]

\* C9: delete(id) of an allocated id that is not in the free list succeeds,
\* returns the content last stored in the block and puts id in the free list;
\* delete(id) of an id at or beyond the allocated count, or of an id in the
\* free list, fails and leaves the free list and every block as they were.
C9_EngineDelete ==
    [][last'.op = "delete" =>
          LET id == last'.arg[1]
          IN  IF id < next_block_id /\ ~Contains(free_list, id)
              THEN /\ last'.ok
                   /\ last'.ret = written[id + 1]
                   /\ Contains(free_list', id)
              ELSE /\ ~last'.ok
                   /\ free_list' = free_list
                   /\ blocks' = blocks]_vars

C9_Witness ==
    /\ last.op = "delete"
    /\ last.ok
    /\ last.ret # None
    /\ Len(free_list) >= 2

\* C10: alloc_block returns the most recently freed id that was not handed
\* out again whenever the free list is not empty, takes it off the free list
\* and leaves the allocated count alone; with an empty free list it returns
\* the allocated count and raises it by one.
C10_AllocBlockLifo ==
    [][last'.op = "alloc_block" =>
          LET id == last'.ret[1]
          IN  IF free_list # <<>>
              THEN /\ id = freed[Len(freed)]
                   /\ ~Contains(free_list', id)
                   /\ Len(free_list') = Len(free_list) - 1
                   /\ next_block_id' = next_block_id
              ELSE /\ id = next_block_id
                   /\ next_block_id' = next_block_id + 1]_vars

C10_Witness ==
    /\ last.op = "alloc_block"
    /\ free_list # <<>>
    /\ last.ret[1] < free_list[Len(free_list)]

\* C11: the block whose id alloc_block returns is valid and has empty content
\* when alloc_block returns, for a fresh id and for an id taken from the
\* free list alike.
C11_AllocatedBlockEmpty ==
    [][last'.op = "alloc_block" =>
          LET b == blocks'[last'.ret[1] + 1]
          IN  b.valid /\ b.content = None]_vars

\* C12: fetch_read(id) and fetch_write(id) succeed exactly when id is below
\* the allocated count; a fetch that fails leaves the allocated count, the
\* free list and every block as they were and calls write_back not once.
C12_FetchInRange ==
    [][last'.op \in {"fetch_read", "fetch_write"} =>
          LET id == last'.arg[1]
          IN  /\ last'.ok <=> id < next_block_id
              /\ ~last'.ok => /\ next_block_id' = next_block_id
                              /\ free_list' = free_list
                              /\ blocks' = blocks
                              /\ wb' = <<>>]_vars

C12_Witness ==
    /\ last.op = "fetch_write"
    /\ ~last.ok
    /\ last.arg[1] = next_block_id
    /\ next_block_id > 0
    /\ free_list # <<>>
    /\ \E i \in DOMAIN blocks : blocks[i].content # None

\* C13: between a successful delete(id) and the alloc_block that hands id out
\* again, that is while id is in the free list, fetch_read(id) and
\* fetch_write(id) fail instead of returning a guard.
C13_FreedIdFetchFails ==
    [][/\ last'.op \in {"fetch_read", "fetch_write"}
       /\ Contains(free_list, last'.arg[1])
       => ~last'.ok]_vars

C15_NewRootOnlyAtRoot ==
    [][last'.op = "insert" =>
          /\ \A id \in InnerIds' \ InnerIds : root' = id /\ root' # root
          /\ root' # root => root' \in InnerIds' \ InnerIds
          /\ \A sib \in LeafIds' \ LeafIds :
                 sib \in {x[1] : x \in ReachedLeaves'}]_vars

\* C16: at every inner node of the tree and for every key, a key equal to a
\* separator included, insert_helper descends to the child that
\* search_helper descends to.
C16_InsertRoutesAsSearch ==
    \A id \in InnerIds : \A key \in Keys :
        InsertRoute(NodeAt(id).keys, key) = SearchRoute(NodeAt(id).keys, key)

\* C17: when the engine fails a fetch made by insert, delete or search, the
\* tree operation returns an error to its caller: the process does not
\* abort, and the call does not report success.
C17_EngineFailureReturned ==
    [][last'.op \in {"insert_refused", "delete_refused", "search_refused"} =>
          ~aborted' /\ ~last'.ok]_vars

\* C18: after every engine call the free list has no duplicate, holds only
\* ids below the allocated count, the number of blocks is the allocated
\* count and the block at index i carries id i; and the id alloc_block (also
\* inside alloc_write) returns was not live before the call, live meaning
\* allocated and not freed since it was last handed out.
Live(id) == id < next_block_id /\ ~Contains(freed, id)

C18_EngineInvariant ==
    [][/\ \A i, j \in DOMAIN free_list' : i # j => free_list'[i] # free_list'[j]
       /\ \A i \in DOMAIN free_list' : free_list'[i] < next_block_id'
       /\ Len(blocks') = next_block_id'
       /\ \A i \in DOMAIN blocks' : blocks'[i].id = i - 1
       /\ last'.op \in {"alloc_block", "alloc_write"} => ~Live(last'.ret[1])]_vars

C18_Witness ==
    /\ last.op = "alloc_write"
    /\ last.ret[1] < next_block_id - 1
    /\ free_list # <<>>
    /\ Live(last.ret[1])

\* C19: no insert or delete call the tree can be given waits on a lock that
\* is never released: a call requests no lock whose write guard it still
\* holds, and so every call runs to completion.
C19_CallsRunToCompletion ==
    ~aborted =>
        \A k \in Keys :
            /\ delete(k).status # "blocked"
            /\ k \notin DOMAIN inserted =>
                   \A mv \in BOOLEAN : insert(k, ValueOf(k), mv).status # "blocked"

\* C20: between calls, when no write guard is out, every block whose valid
\* flag or content was ever changed since it was created has been passed to
\* write_back, and the block passed last for its id is the block as it is.
Changed(i) ==
    \/ BlockState(blocks[i]) # BlockState(Block(FALSE, i - 1, None))
    \/ synced[i] # None

C20_WriteBackInSync ==
    \A i \in DOMAIN blocks :
        blocks[i].lock = 0 /\ Changed(i) => synced[i] = Some(BlockState(blocks[i]))

====
